---- MODULE Spec2Model ----
(***************************************************************************)
(* Model of exercise4-02-03-2020/multiple_comparisons.ipynb: the           *)
(* multiple-comparisons experiment.  The notebook's code cells are run in  *)
(* order, again and again:                                                 *)
(*   generation cell   df = pd.DataFrame(); N; T; for i: df['X%s'%i] = X   *)
(*   scan cell         cutoff; significant_pairs = []; for i: for j: ...   *)
(*   expected cell     (N * (N-1) / 2) * 0.05                              *)
(*   count cell        len(significant_pairs)                              *)
(* The two loops are modelled one iteration per step.                      *)
(*                                                                         *)
(* Scale.  The notebook sets N = 20, T = 100, cutoff = 0.05.  Here N is an *)
(* input of the generation cell (0..MaxN) and the cutoff an input of the   *)
(* scan cell (Cutoffs, in units of 1/CutDen); the series length is         *)
(* SeriesLen = 4, the length at which the p-value of the Spearman test has *)
(* the exact closed form p = 1 - |rho| (Student t with T-2 = 2 degrees of  *)
(* freedom), so that "p < cutoff" is decided exactly in integers.          *)
(*                                                                         *)
(* numpy's global generator is a finite deterministic state machine; it is *)
(* modelled as a linear congruential generator over RngMod states whose    *)
(* output is passed through a quantised inverse normal CDF (Quantile).     *)
(***************************************************************************)
EXTENDS Integers, Sequences, FiniteSets, TLC

VARIABLES
    pc,                 \* which cell runs / has run
    df,                 \* the data frame: sequence of columns [name, data]
    N,                  \* number of series
    T,                  \* length of a series
    i,                  \* loop variable i (global, shared by both cells):
                        \* in the generation loop the next index range(N)
                        \* yields, in the scan the current outer index
    j,                  \* the next index the scan's range(i+1, N) yields
    cutoff,             \* numerator of the cutoff, in units of 1/CutDen
    significant_pairs,  \* the scan's result list
    rng,                \* state of numpy's global generator
    expected,           \* value shown by the expected cell, [num, den]
    count,              \* value shown by the count cell
    output,             \* what the scan cell has printed or logged
    tested,             \* history: the pairs spearmanr was called on, in order
    seed,               \* history: rng when the current generation started
    correction,         \* the correction mode asked of the scan (the cell
                        \* has none: nothing reads this)
    prev                \* history: the run before the current one

vars == <<pc, df, N, T, i, j, cutoff, significant_pairs, rng, expected,
          count, output, tested, seed, correction, prev>>

----------------------------------------------------------------------------
(* Bounds and constants *)

\* Largest number of series the generation cell is run with.
MaxN == 3

\* T = 100 in the notebook; 4 here (see Scale above).
SeriesLen == 4

\* Cutoffs are multiples of 1/CutDen; the notebook's 0.05 is 1/20.
CutDen == 20

\* The literal 0.05 of the expected cell, in units of 1/CutDen.
Literal005 == 1

\* The cutoffs the scan cell is run with: 0.05 (the notebook's), 0.5 and the
\* invalid 1.0.
Cutoffs == {1, 10, 20}

Modes == {"raw", "bonferroni"}

\* numpy's generator: state space, multiplier and increment of the model LCG.
RngMod == 32

RngMul == 5

RngInc == 13

\* The states the generator is seeded with.  The two low bits of the LCG
\* have period 4 = SeriesLen, so after every series, and so at the start of
\* every run, the generator is back in the residue class it was seeded in.
Seeds == {s \in 0..(RngMod - 1) : s % SeriesLen = 0}

----------------------------------------------------------------------------
(* The random generator: np.random.normal(0, 1, T) *)

NextRng(s) == (RngMul * s + RngInc) % RngMod

RECURSIVE Skip(_, _)
Skip(s, n) == IF n = 0 THEN s ELSE Skip(NextRng(s), n - 1)

\* Inverse normal CDF of the uniform state, rounded to the nearest integer:
\* P(-2) = P(2) = 1/16, P(-1) = P(1) = 1/4, P(0) = 3/8.
Quantile(s) ==
    LET u == (16 * s) \div RngMod
    IN  IF u < 1 THEN -2
        ELSE IF u < 5 THEN -1
        ELSE IF u < 11 THEN 0
        ELSE IF u < 15 THEN 1
        ELSE 2

\* The n samples drawn from state s.
Normal(s, n) == [k \in 1..n |-> Quantile(Skip(s, k))]

----------------------------------------------------------------------------
(* The data frame *)

HasColumn(d, name) == \E k \in 1..Len(d) : d[k].name = name

\* df[name] = X : replaces the column of that name, or appends a new one.
SetColumn(d, name, X) ==
    IF HasColumn(d, name)
    THEN [k \in 1..Len(d) |->
             IF d[k].name = name THEN [name |-> name, data |-> X] ELSE d[k]]
    ELSE Append(d, [name |-> name, data |-> X])

\* df.iloc[:, k] : the column at position k, counted from 0.
Iloc(d, k) == d[k + 1].data

----------------------------------------------------------------------------
(* stats.spearmanr(Xi, Xj) *)

RECURSIVE SumTo(_, _)
SumTo(f, n) == IF n = 0 THEN 0 ELSE f[n] + SumTo(f, n - 1)

\* Twice the average rank of x[k] among x (scipy's rankdata, method average).
Rank2(x, k) ==
    2 * Cardinality({m \in 1..Len(x) : x[m] < x[k]})
      + Cardinality({m \in 1..Len(x) : x[m] = x[k]}) + 1

Ranks2(x) == [k \in 1..Len(x) |-> Rank2(x, k)]

\* n * sum(a*b) - sum(a) * sum(b): n^2 times the covariance of a and b.
Cov(a, b) ==
    LET n == Len(a)
    IN  n * SumTo([k \in 1..n |-> a[k] * b[k]], n) - SumTo(a, n) * SumTo(b, n)

\* The p-value of the two-sided test.  rho = Sxy / sqrt(Sxx * Syy) is the
\* Pearson correlation of the ranks; with a constant series it is 0/0 and
\* the p-value is NaN.  Otherwise, for SeriesLen = 4, p = 1 - |rho|; it is
\* kept exactly as rho^2 = r2num / r2den.
PValue(x, y) ==
    LET rx  == Ranks2(x)
        ry  == Ranks2(y)
        sxy == Cov(rx, ry)
        sxx == Cov(rx, rx)
        syy == Cov(ry, ry)
    IN  IF sxx = 0 \/ syy = 0
        THEN [nan |-> TRUE, r2num |-> 0, r2den |-> 1]
        ELSE [nan |-> FALSE, r2num |-> sxy * sxy, r2den |-> sxx * syy]

\* p < num/den for a p-value that is not NaN: 1 - |rho| < num/den, that is
\* |rho| > (den - num)/den.
Below(p, num, den) ==
    IF den - num < 0
    THEN TRUE
    ELSE p.r2num * den * den > (den - num) * (den - num) * p.r2den

\* Mutant of Significant: pvalue <= cutoff.
Significant_le(pvalue, c) ==
    /\ ~pvalue.nan
    /\ \/ CutDen - c < 0
       \/ pvalue.r2num * CutDen * CutDen >=
              (CutDen - c) * (CutDen - c) * pvalue.r2den

\* Mutant of Significant: not (pvalue >= cutoff), which is True for NaN.
Significant_nan(pvalue, c) == pvalue.nan \/ Below(pvalue, c, CutDen)

\* pvalue < cutoff, as Python evaluates it: False when pvalue is NaN.
Significant(pvalue, c) == ~pvalue.nan /\ Below(pvalue, c, CutDen)

----------------------------------------------------------------------------
(* State *)

NoRun == [run |-> FALSE, seed |-> 0, N |-> 0, T |-> 0, cutoff |-> 0,
          df |-> <<>>, pairs |-> <<>>]

\* The run that has just been completed, as the next run remembers it.
ThisRun == [run |-> TRUE, seed |-> seed, N |-> N, T |-> T, cutoff |-> cutoff,
            df |-> df, pairs |-> significant_pairs]

\* A fresh kernel: no cell has run, the generator is seeded from outside.
Init ==
    /\ pc = "ready"
    /\ df = <<>>
    /\ N = 0
    /\ T = 0
    /\ i = 0
    /\ j = 0
    /\ cutoff = 0
    /\ significant_pairs = <<>>
    /\ rng \in Seeds
    /\ expected = [num |-> 0, den |-> 1]
    /\ count = 0
    /\ output = <<>>
    /\ tested = <<>>
    /\ seed = rng
    /\ correction = "raw"
    /\ prev = NoRun

----------------------------------------------------------------------------
(* The generation cell *)

\* Mutant of GenStart: the data frame is not created anew.
GenStart_keep(n) ==
    /\ pc \in {"ready", "counted"}
    /\ pc' = "gen"
    /\ df' = df
    /\ N' = n
    /\ T' = SeriesLen
    /\ i' = 0
    /\ seed' = rng
    /\ prev' = IF pc = "counted" THEN ThisRun ELSE prev
    /\ UNCHANGED <<j, cutoff, significant_pairs, rng, expected, count, output,
                   tested, correction>>

\* df = pd.DataFrame(); N = n; T = 100; the loop over range(N) begins.
GenStart(n) ==
    /\ pc \in {"ready", "counted"}
    /\ pc' = "gen"
    /\ df' = <<>>
    /\ N' = n
    /\ T' = SeriesLen
    /\ i' = 0
    /\ seed' = rng
    /\ prev' = IF pc = "counted" THEN ThisRun ELSE prev
    /\ UNCHANGED <<j, cutoff, significant_pairs, rng, expected, count, output,
                   tested, correction>>

\* One iteration: X = np.random.normal(0, 1, T); df['X%s' % i] = X.
GenStep ==
    /\ pc = "gen"
    /\ i < N
    /\ df' = SetColumn(df, i, Normal(rng, T))
    /\ rng' = Skip(rng, T)
    /\ i' = i + 1
    /\ UNCHANGED <<pc, N, T, j, cutoff, significant_pairs, expected, count,
                   output, tested, seed, correction, prev>>

\* range(N) is exhausted: the cell has run.
GenEnd ==
    /\ pc = "gen"
    /\ i >= N
    /\ pc' = "generated"
    /\ UNCHANGED <<df, N, T, i, j, cutoff, significant_pairs, rng, expected,
                   count, output, tested, seed, correction, prev>>

----------------------------------------------------------------------------
(* The scan cell *)

\* Mutant of ScanStart: the inner loop begins at j = i.
ScanStart_fromI(c, m) ==
    /\ pc = "generated"
    /\ pc' = "scan"
    /\ cutoff' = c
    /\ correction' = m
    /\ significant_pairs' = <<>>
    /\ output' = <<>>
    /\ tested' = <<>>
    /\ i' = 0
    /\ j' = 0
    /\ UNCHANGED <<df, N, T, rng, expected, count, seed, prev>>

\* Mutant of ScanStart: significant_pairs is not emptied.
ScanStart_keep(c, m) ==
    /\ pc = "generated"
    /\ pc' = "scan"
    /\ cutoff' = c
    /\ correction' = m
    /\ output' = <<>>
    /\ tested' = <<>>
    /\ i' = 0
    /\ j' = 1
    /\ UNCHANGED <<df, N, T, significant_pairs, rng, expected, count, seed,
                   prev>>

\* cutoff = c; significant_pairs = []; the loops begin at i = 0, j = i+1.
\* The cell has no correction mode: m is asked for and never read.
ScanStart(c, m) ==
    /\ pc = "generated"
    /\ pc' = "scan"
    /\ cutoff' = c
    /\ correction' = m
    /\ significant_pairs' = <<>>
    /\ output' = <<>>
    /\ tested' = <<>>
    /\ i' = 0
    /\ j' = 1
    /\ UNCHANGED <<df, N, T, rng, expected, count, seed, prev>>

\* Mutant of ScanTest: the series Xi is ranked in place, in the data frame.
ScanTest_inplace ==
    /\ pc = "scan"
    /\ i < N
    /\ j < N
    /\ LET Xi     == Iloc(df, i)
           Xj     == Iloc(df, j)
           pvalue == PValue(Xi, Xj)
       IN  significant_pairs' =
               IF Significant(pvalue, cutoff)
               THEN Append(significant_pairs, <<i, j>>)
               ELSE significant_pairs
    /\ df' = [df EXCEPT ![i + 1].data = Ranks2(@)]
    /\ tested' = Append(tested, <<i, j>>)
    /\ j' = j + 1
    /\ UNCHANGED <<pc, N, T, i, cutoff, rng, expected, count, output,
                   seed, correction, prev>>

\* The body of the inner loop for the pair (i, j).
ScanTest ==
    /\ pc = "scan"
    /\ i < N
    /\ j < N
    /\ LET Xi     == Iloc(df, i)
           Xj     == Iloc(df, j)
           pvalue == PValue(Xi, Xj)
       IN  significant_pairs' =
               IF Significant(pvalue, cutoff)
               THEN Append(significant_pairs, <<i, j>>)
               ELSE significant_pairs
    /\ tested' = Append(tested, <<i, j>>)
    /\ j' = j + 1
    /\ UNCHANGED <<pc, df, N, T, i, cutoff, rng, expected, count, output,
                   seed, correction, prev>>

\* Mutant of ScanNextI: the inner loop begins at j = i.
ScanNextI_fromI ==
    /\ pc = "scan"
    /\ i < N
    /\ j >= N
    /\ i' = i + 1
    /\ j' = i + 1
    /\ UNCHANGED <<pc, df, N, T, cutoff, significant_pairs, rng, expected,
                   count, output, tested, seed, correction, prev>>

\* range(i+1, N) is exhausted: the outer loop takes its next i.
ScanNextI ==
    /\ pc = "scan"
    /\ i < N
    /\ j >= N
    /\ i' = i + 1
    /\ j' = i + 2
    /\ UNCHANGED <<pc, df, N, T, cutoff, significant_pairs, rng, expected,
                   count, output, tested, seed, correction, prev>>

\* range(N) is exhausted: the cell has run.
ScanEnd ==
    /\ pc = "scan"
    /\ i >= N
    /\ pc' = "scanned"
    /\ UNCHANGED <<df, N, T, i, j, cutoff, significant_pairs, rng, expected,
                   count, output, tested, seed, correction, prev>>

----------------------------------------------------------------------------
(* The expected cell and the count cell *)

\* (N * (N-1) / 2) * 0.05, kept as the fraction num / den.
ExpectedCell ==
    /\ pc = "scanned"
    /\ pc' = "expected"
    /\ expected' = [num |-> N * (N - 1) * Literal005, den |-> 2 * CutDen]
    /\ UNCHANGED <<df, N, T, i, j, cutoff, significant_pairs, rng, count,
                   output, tested, seed, correction, prev>>

\* len(significant_pairs)
CountCell ==
    /\ pc = "expected"
    /\ pc' = "counted"
    /\ count' = Len(significant_pairs)
    /\ UNCHANGED <<df, N, T, i, j, cutoff, significant_pairs, rng, expected,
                   output, tested, seed, correction, prev>>

----------------------------------------------------------------------------
(* The environment *)

\* The generator is given the state s between two runs (np.random.seed);
\* the notebook itself never seeds it.  The run that was completed, if any,
\* is closed.
Reseed(s) ==
    /\ pc \in {"ready", "counted"}
    /\ s # rng
    /\ pc' = "ready"
    /\ rng' = s
    /\ prev' = IF pc = "counted" THEN ThisRun ELSE prev
    /\ UNCHANGED <<df, N, T, i, j, cutoff, significant_pairs, expected,
                   count, output, tested, seed, correction>>

Next ==
    \/ \E n \in 0..MaxN : GenStart(n)
    \/ GenStep
    \/ GenEnd
    \/ \E c \in Cutoffs, m \in Modes : ScanStart(c, m)
    \/ ScanTest
    \/ ScanNextI
    \/ ScanEnd
    \/ ExpectedCell
    \/ CountCell
    \/ \E s \in Seeds : Reseed(s)

Spec == Init /\ [][Next]_vars

----------------------------------------------------------------------------
(* Vocabulary of the properties *)

\* The unordered pairs of n series, each as (a, b) with a < b.
Pairs(n) == {pr \in (0..(n - 1)) \X (0..(n - 1)) : pr[1] < pr[2]}

PairCount(n) == (n * (n - 1)) \div 2

Range(q) == {q[k] : k \in 1..Len(q)}

NoDuplicates(q) == Cardinality(Range(q)) = Len(q)

\* The p-value of the test of the series at positions pr of the data frame.
PairP(pr) == PValue(Iloc(df, pr[1]), Iloc(df, pr[2]))

\* p = num/den exactly.
Equal(p, num, den) ==
    /\ ~p.nan
    /\ den - num >= 0
    /\ p.r2num * den * den = (den - num) * (den - num) * p.r2den

\* The pairs of the current data frame whose p-value is a number below num/den.
Flagged(num, den) ==
    {pr \in Pairs(N) : ~PairP(pr).nan /\ Below(PairP(pr), num, den)}

\* The data frame that n series of length t drawn from generator state s make.
GeneratedFrame(s, n, t) ==
    [k \in 1..n |-> [name |-> k - 1, data |-> Normal(Skip(s, (k - 1) * t), t)]]

Scanning == pc = "scan"

\* The scan of the current run has finished and nothing has run since.
Scanned == pc \in {"scanned", "expected", "counted"}

InvalidN == N < 2

InvalidCutoff == cutoff <= 0 \/ cutoff >= CutDen

----------------------------------------------------------------------------
(* Properties *)

\* C1: when the scan has finished, significant_pairs lists exactly the pairs
\* (a, b), 0 <= a < b < N, whose p-value is strictly below the cutoff, each
\* once, and the count cell shows their number.
C1_FlagsExactlyBelowCutoff ==
    Scanned =>
        /\ Range(significant_pairs) = Flagged(cutoff, CutDen)
        /\ Len(significant_pairs) = Cardinality(Flagged(cutoff, CutDen))
        /\ pc = "counted" => count = Cardinality(Flagged(cutoff, CutDen))

\* C1 witness: a finished scan that flagged a pair and left out a pair whose
\* p-value equals the cutoff.
C1_Witness ==
    /\ pc = "counted"
    /\ ~InvalidCutoff
    /\ count > 0
    /\ \E pr \in Pairs(N) :
          /\ Equal(PairP(pr), cutoff, CutDen)
          /\ pr \notin Range(significant_pairs)

\* The number of steps the scan still has to take, counted generously.
C2_Variant ==
    IF Scanning
    THEN (N + 2) * (IF i < N THEN N - i ELSE 0)
            + (IF j <= N THEN N + 1 - j ELSE 0) + 1
    ELSE 0

C2_State ==
    /\ (Scanning \/ Scanned) =>
          /\ Range(tested) \subseteq Pairs(N)
          /\ NoDuplicates(tested)
    /\ Scanned =>
          /\ Range(tested) = Pairs(N)
          /\ Len(tested) = PairCount(N)
          /\ N = 2 => Len(tested) = 1
          /\ N < 2 => tested = <<>> /\ significant_pairs = <<>>

\* C2: the scan calls the test on pairs (a, b) with a < b only, never twice
\* on the same pair; every step of it brings it closer to its end, and at its
\* end it has tested each of the N*(N-1)/2 pairs once: one pair for N = 2,
\* and for N < 2 none, with none recorded.
C2_EachPairOnce ==
    /\ []C2_State
    /\ [][Scanning => C2_Variant' < C2_Variant]_vars

\* C2 witness: a finished scan of three series, three tests made.
C2_Witness == pc = "scanned" /\ N = 3 /\ Len(tested) = 3

\* C3 as stated: an invalid configuration is rejected at entry and nothing is
\* computed: with N < 2 no series is generated, and with N < 2 or a cutoff
\* outside (0, 1) no pair is tested and none is recorded.
C3_InvalidRejected ==
    /\ (pc \in {"gen", "generated"} \/ Scanning \/ Scanned) /\ InvalidN =>
          df = <<>>
    /\ (Scanning \/ Scanned) /\ (InvalidN \/ InvalidCutoff) =>
          tested = <<>> /\ significant_pairs = <<>>

\* C3 as amended: no configuration is rejected.  With N < 2 the N series are
\* generated all the same and the scan ends with no pair tested and none
\* recorded; with a cutoff outside (0, 1) the scan tests every pair all the
\* same and records those whose p-value is below the cutoff.
C3_InvalidRunsThrough ==
    /\ pc \in {"ready", "gen", "generated", "scan", "scanned", "expected",
               "counted"}
    /\ Scanned /\ InvalidN =>
          /\ df = GeneratedFrame(seed, N, T)
          /\ tested = <<>>
          /\ significant_pairs = <<>>
    /\ Scanned /\ InvalidCutoff =>
          /\ Range(tested) = Pairs(N)
          /\ Range(significant_pairs) = Flagged(cutoff, CutDen)

\* C3 witness: a run with the invalid cutoff 1.0 has gone through to the
\* count cell, with pairs recorded, after a run with N = 1 that had gone
\* through with its one series generated.
C3_Witness ==
    /\ pc = "counted"
    /\ cutoff = CutDen
    /\ N = 3
    /\ count > 0
    /\ prev.run
    /\ prev.N = 1
    /\ Len(prev.df) = 1

\* C4 as stated, for a valid configuration: in raw mode a pair is flagged iff
\* p < c, in Bonferroni mode iff p < c/K with K = N*(N-1)/2 (so that the
\* Bonferroni flags are among the raw ones).
C4_CorrectionModes ==
    Scanned /\ ~InvalidN /\ ~InvalidCutoff =>
        /\ correction = "raw" =>
              Range(significant_pairs) = Flagged(cutoff, CutDen)
        /\ correction = "bonferroni" =>
              /\ Range(significant_pairs) =
                     Flagged(cutoff, CutDen * PairCount(N))
              /\ Range(significant_pairs) \subseteq Flagged(cutoff, CutDen)

\* C5 as stated: a pair whose p-value is NaN is never recorded, the event is
\* written to the scan's output, and the scan goes on to test every pair.
C5_NaNLogged ==
    /\ (Scanning \/ Scanned) =>
          \A pr \in Range(tested) :
              PairP(pr).nan =>
                  /\ pr \notin Range(significant_pairs)
                  /\ pr \in Range(output)
    /\ Scanned => Range(tested) = Pairs(N)

\* C5 as amended: a pair whose p-value is NaN is never recorded and the scan
\* goes on to test every pair; the scan writes nothing to its output.
C5_NaNNotSignificant ==
    /\ (Scanning \/ Scanned) =>
          /\ \A pr \in Range(tested) :
                PairP(pr).nan => pr \notin Range(significant_pairs)
          /\ output = <<>>
    /\ Scanned => Range(tested) = Pairs(N)

\* C5 witness: the first pair of a finished scan had a NaN p-value, and a
\* pair tested after it was recorded.
C5_Witness ==
    /\ pc = "scanned"
    /\ N = 3
    /\ ~InvalidCutoff
    /\ PairP(<<0, 1>>).nan
    /\ <<0, 1>> \notin Range(significant_pairs)
    /\ significant_pairs # <<>>

\* C6: a finished run that started from the same generator state as the run
\* before it, with the same N, T and cutoff, has the same series data and
\* the same significant pairs.
C6_SameSeedSameResult ==
    (/\ Scanned
     /\ prev.run
     /\ prev.seed = seed
     /\ prev.N = N
     /\ prev.T = T
     /\ prev.cutoff = cutoff)
        => prev.df = df /\ prev.pairs = significant_pairs

\* C6 witness: two such runs, one after the other, with pairs recorded.
C6_Witness ==
    /\ pc = "counted"
    /\ prev.run
    /\ prev.seed = seed
    /\ prev.N = N
    /\ prev.T = T
    /\ prev.cutoff = cutoff
    /\ N = 3
    /\ significant_pairs # <<>>

C8_ExpectedFollowsCutoff ==
    pc \in {"expected", "counted"} =>
        expected.num * 2 * CutDen = N * (N - 1) * cutoff * expected.den

\* C10: after any sequence of runs, the data frame holds the N series of the
\* last generation and nothing else, and significant_pairs holds pairs the
\* last scan tested and found below its cutoff, each once.
C10_RunsIndependent ==
    /\ (pc = "generated" \/ Scanning \/ Scanned) =>
          df = GeneratedFrame(seed, N, T)
    /\ (Scanning \/ Scanned) =>
          /\ NoDuplicates(significant_pairs)
          /\ Range(significant_pairs) \subseteq Range(tested)
          /\ \A pr \in Range(significant_pairs) :
                pr \in Pairs(N) /\ Below(PairP(pr), cutoff, CutDen)

\* C10 witness: a run of two series has finished after a run of three series
\* that had recorded pairs.
C10_Witness ==
    /\ pc = "counted"
    /\ prev.run
    /\ prev.N = 3
    /\ Len(prev.pairs) >= 2
    /\ N = 2
    /\ count <= 1

====
